---- MODULE Spec2Model ----
(***************************************************************************)
(* Model of the client side of the chat application's real-time layer:     *)
(*   - WebSocketClient (lib/websocket): connection, manual disconnect,     *)
(*     reconnection with exponential backoff, desired room set, outbound   *)
(*     frames;                                                             *)
(*   - useTypingIndicator (hooks/useWebSocket): the typing tracker with    *)
(*     its 3 second expiry timers;                                         *)
(*   - ChatPageContent (app/chat/page): room selection through the         *)
(*     useWebSocket and useTypingIndicator hooks on the provider's client, *)
(*     and the displayed message list fed by REST loads and broadcasts.    *)
(* The browser is modelled by its events: a socket opens, fails (error     *)
(* event followed by the close event of the same task), closes, and a      *)
(* timer fires.  A promise reaction (the .catch of attemptReconnect) runs  *)
(* at the microtask checkpoint that follows the callback which settled     *)
(* the promise, so it is part of that callback's action.                   *)
(***************************************************************************)
EXTENDS Integers, Sequences, FiniteSets, TLC

(* ---------------- bounds of the model ---------------- *)
MaxSockets == 2
MaxChain == 7
MaxRoom == 2
MaxUser == 2
MaxTicks == 7
ClockStep == 1000
MaxMsg == 3
MaxHandler == 2
MaxFrames == 3

(* ---------------- program constants ---------------- *)
InitialReconnectDelay == 5000
MaxReconnectDelay == 60000
TypingExpiryMs == 3000
PageSize == 50

Rooms == 1..MaxRoom
Users == 1..MaxUser
Handlers == 1..MaxHandler
FrameTypes == {"message", "typing"}
HandlerTypes == FrameTypes \cup {"all"}

VARIABLES
    ws,                 \* this.ws: index into socks of the current transport, 0 = null
    socks,              \* every WebSocket created by this client, in creation order
    connected,          \* this.connected
    reconnecting,       \* this.reconnecting
    manualDisconnect,   \* this.manualDisconnect
    reconnectDelay,     \* this.reconnectDelay
    reconnectAttempts,  \* this.reconnectAttempts
    currentRooms,       \* this.currentRooms, a Set kept in insertion order
    timers,             \* delays of the armed retry timers of attemptReconnect
    out,                \* what the last step produced, in order: the frames written to
                        \* the transport this.ws and the handler sets notified
    wsUsed,             \* history: a frame has been written to the current transport
    op,                 \* the last step: <<name, argument>>
    errPending,         \* socket whose error event ran and whose close event follows
    authRejected,       \* the server rejected the credential in a handshake
    fails,              \* history: non-manual closes since the last open
    raced,              \* history: connect() was called during a reconnect cycle
    disconnectCalled,   \* history: disconnect() has been called
    hookRoom,           \* useTypingIndicator: roomId, 0 = null
    currentUserId,      \* useTypingIndicator: currentUserId, 0 = undefined
    typingUsers,        \* useTypingIndicator: the typingUsers state array
    timeoutsRef,        \* useTypingIndicator: timeoutsRef map, user -> deadline, 0 = no entry
    armedTimers,        \* the expiry timers armed in the browser
    now,                \* the clock, in milliseconds
    lastTrue,           \* history: time of the last typing=true of a user for the
                        \* monitored room, -1 after typing=false
    selectedRoomId,     \* ChatPageContent: selectedRoomId, 0 = null
    previousRoomRef,    \* useWebSocket: previousRoomRef.current, 0 = null
    localUser,          \* the id of the logged-in user, 0 = not known
    messages,           \* ChatPageContent: the displayed messages state, as message ids
    wsMessages,         \* useWebSocket: the messages state the hook returns, as ids
    store,              \* the number of messages the server has stored for the room
    pending,            \* broadcast events on their way to this client, in order
    loadingMessages,    \* ChatPageContent: a getMessages request is outstanding
    requestPage,        \* the page number of the outstanding getMessages request
    response,           \* the number of stored messages the server read for the
                        \* outstanding request, -1 = not read yet
    currentPage,        \* ChatPageContent: currentPage
    hasMoreMessages,    \* ChatPageContent: hasMoreMessages
    sent,               \* history: messages stored since the page was opened
    messageHandlers,    \* this.messageHandlers: type -> Set of handlers, in insertion order
    dispatched,         \* the handler calls made by the last step, in order: <<handler, frame>>
    frameNo             \* history: the number of frames that have arrived

clientVars == <<ws, socks, connected, reconnecting, manualDisconnect, reconnectDelay,
                reconnectAttempts, currentRooms, timers, out, wsUsed, op,
                errPending, authRejected, fails, raced, disconnectCalled>>
typingVars == <<hookRoom, currentUserId, typingUsers, timeoutsRef, armedTimers, now, lastTrue>>
pageVars == <<selectedRoomId, previousRoomRef, localUser>>
msgVars == <<messages, wsMessages, store, pending, loadingMessages, requestPage,
             response, currentPage, hasMoreMessages, sent>>
dispatchVars == <<messageHandlers, dispatched, frameNo>>
vars == <<ws, socks, connected, reconnecting, manualDisconnect, reconnectDelay,
          reconnectAttempts, currentRooms, timers, out, wsUsed, op,
          errPending, authRejected, fails, raced, disconnectCalled,
          hookRoom, currentUserId, typingUsers, timeoutsRef, armedTimers, now, lastTrue,
          selectedRoomId, previousRoomRef, localUser,
          messages, wsMessages, store, pending, loadingMessages,
          requestPage, response, currentPage, hasMoreMessages, sent,
          messageHandlers, dispatched, frameNo>>

(* ---------------- helpers ---------------- *)
Min(a, b) == IF a < b THEN a ELSE b

RECURSIVE Pow2(_)
Pow2(n) == IF n <= 0 THEN 1 ELSE 2 * Pow2(n - 1)

InSeq(x, s) == \E i \in 1..Len(s) : s[i] = x

Remove(s, x) == SelectSeq(s, LAMBDA y : y # x)

RemoveAt(s, i) == [j \in 1..(Len(s) - 1) |-> IF j < i THEN s[j] ELSE s[j + 1]]

\* Set.add: an element already present keeps its place
SetAdd(s, x) == IF InSeq(x, s) THEN s ELSE Append(s, x)

Frame(type, room, content) == [type |-> type, room_id |-> room, content |-> content]

\* a handler set being notified: "onConnect", "onDisconnect", "onError"
Notify(h) == [type |-> h, room_id |-> 0, content |-> 0]

IsFrame(e) == e.type \in {"join", "leave", "typing"}

Frames(log) == SelectSeq(log, IsFrame)

\* a socket: its readyState, whether the promise of the connect() call that created it
\* is settled, whether that call was made by the retry timer, whether it has been open
NewSocket(byTimer) ==
    [readyState |-> "CONNECTING", settled |-> FALSE, byTimer |-> byTimer, opened |-> FALSE]

\* isConnected() evaluated on given values of this.connected, this.ws and the sockets
IsConnectedIn(c, w, ss) == c /\ w # 0 /\ ss[w].readyState = "OPEN"

isConnected == IsConnectedIn(connected, ws, socks)

\* send(message)
SendIn(c, w, ss, log, frame) ==
    IF w # 0 /\ IsConnectedIn(c, w, ss) THEN Append(log, frame) ELSE log

\* the frame part of joinRoom(roomId)
JoinSend(c, w, ss, log, r) ==
    IF IsConnectedIn(c, w, ss) THEN SendIn(c, w, ss, log, Frame("join", r, r)) ELSE log

\* the frame part of leaveRoom(roomId)
LeaveSend(c, w, ss, log, r) ==
    IF IsConnectedIn(c, w, ss) THEN SendIn(c, w, ss, log, Frame("leave", r, r)) ELSE log

\* onopen: this.currentRooms.forEach(roomId => this.joinRoom(roomId)), from position i
RECURSIVE RejoinAll(_, _, _, _, _, _)
RejoinAll(c, w, ss, rooms, log, i) ==
    IF i > Len(rooms) THEN log
    ELSE RejoinAll(c, w, ss, SetAdd(rooms, rooms[i]),
                   JoinSend(c, w, ss, log, rooms[i]), i + 1)

\* the delay computed by attemptReconnect for the attempt counter n
BackoffDelayOffByOne(d, n) == Min(d * Pow2(n), MaxReconnectDelay)
BackoffDelay(d, n) == Min(d * Pow2(n - 1), MaxReconnectDelay)

\* attemptReconnect(): the new values of reconnecting, reconnectAttempts and timers
AttemptReconnect(rec, man, att, del, tms) ==
    IF rec \/ man
    THEN [reconnecting |-> rec, reconnectAttempts |-> att, timers |-> tms]
    ELSE [reconnecting |-> TRUE, reconnectAttempts |-> att + 1,
          timers |-> Append(tms, BackoffDelay(del, att + 1))]

(* ---------------- initial state ---------------- *)
InitClient ==
    /\ ws = 0
    /\ socks = <<>>
    /\ connected = FALSE
    /\ reconnecting = FALSE
    /\ manualDisconnect = FALSE
    /\ reconnectDelay = InitialReconnectDelay
    /\ reconnectAttempts = 0
    /\ currentRooms = <<>>
    /\ timers = <<>>
    /\ out = <<>>
    /\ wsUsed = FALSE
    /\ op = <<"init", 0>>
    /\ errPending = 0
    /\ authRejected = FALSE
    /\ fails = 0
    /\ raced = FALSE
    /\ disconnectCalled = FALSE

InitNoHook ==
    /\ hookRoom = 0
    /\ currentUserId = 0
    /\ typingUsers = <<>>
    /\ timeoutsRef = [u \in Users |-> 0]
    /\ armedTimers = {}
    /\ now = 0
    /\ lastTrue = [u \in Users |-> -1]
    /\ selectedRoomId = 0
    /\ previousRoomRef = 0
    /\ localUser = 0
    /\ messages = <<>>
    /\ wsMessages = <<>>
    /\ store = 0
    /\ pending = <<>>
    /\ loadingMessages = FALSE
    /\ requestPage = 0
    /\ response = -1
    /\ currentPage = 1
    /\ hasMoreMessages = FALSE
    /\ sent = 0
    /\ messageHandlers = [t \in HandlerTypes |-> <<>>]
    /\ dispatched = <<>>
    /\ frameNo = 0

Init == InitClient /\ InitNoHook

\* the client has no transport that is not closed, no armed retry timer and is
\* not in its reconnecting state
Idle ==
    /\ ~reconnecting
    /\ timers = <<>>
    /\ \A s \in 1..Len(socks) : socks[s].readyState = "CLOSED"

(* ---------------- WebSocketClient: application calls ---------------- *)
\* connect(), the part that runs in the promise executor
ConnectBody(byTimer, limit) ==
    IF connected
    THEN UNCHANGED <<ws, socks, wsUsed>>
    ELSE /\ Len(socks) < limit
         /\ socks' = Append(socks, NewSocket(byTimer))
         /\ ws' = Len(socks) + 1
         /\ wsUsed' = FALSE

\* an explicit connect() of the application
Connect(limit) ==
    /\ errPending = 0
    /\ ConnectBody(FALSE, limit)
    /\ raced' = (raced \/ (~connected /\ ~Idle))
    /\ out' = <<>>
    /\ op' = <<"connect", 0>>
    /\ UNCHANGED dispatchVars
    /\ UNCHANGED pageVars
    /\ UNCHANGED msgVars
    /\ UNCHANGED <<connected, reconnecting, manualDisconnect, reconnectDelay,
                   reconnectAttempts, currentRooms, timers, errPending, authRejected,
                   fails, disconnectCalled>>
    /\ UNCHANGED typingVars

\* disconnect()
Disconnect ==
    /\ errPending = 0
    /\ manualDisconnect' = TRUE
    /\ connected' = FALSE
    /\ IF ws # 0
       THEN /\ socks' = [socks EXCEPT ![ws].readyState =
                            IF @ \in {"CONNECTING", "OPEN"} THEN "CLOSING" ELSE @]
            /\ ws' = 0
       ELSE UNCHANGED <<socks, ws>>
    /\ disconnectCalled' = TRUE
    /\ out' = <<>>
    /\ op' = <<"disconnect", 0>>
    /\ UNCHANGED dispatchVars
    /\ UNCHANGED pageVars
    /\ UNCHANGED msgVars
    /\ UNCHANGED <<reconnecting, reconnectDelay, reconnectAttempts, currentRooms,
                   timers, wsUsed, errPending, authRejected, fails, raced>>
    /\ UNCHANGED typingVars

\* joinRoom(roomId)
JoinRoomSendsOnlyWhenNew(r) ==
    /\ errPending = 0
    /\ currentRooms' = SetAdd(currentRooms, r)
    /\ out' = IF InSeq(r, currentRooms) THEN <<>>
              ELSE JoinSend(connected, ws, socks, <<>>, r)
    /\ wsUsed' = (wsUsed \/ out' # <<>>)
    /\ op' = <<"joinRoom", r>>
    /\ UNCHANGED dispatchVars
    /\ UNCHANGED pageVars
    /\ UNCHANGED msgVars
    /\ UNCHANGED <<ws, socks, connected, reconnecting, manualDisconnect, reconnectDelay,
                   reconnectAttempts, timers, errPending, authRejected, fails, raced,
                   disconnectCalled>>
    /\ UNCHANGED typingVars
JoinRoom(r) ==
    /\ errPending = 0
    /\ currentRooms' = SetAdd(currentRooms, r)
    /\ out' = JoinSend(connected, ws, socks, <<>>, r)
    /\ wsUsed' = (wsUsed \/ out' # <<>>)
    /\ op' = <<"joinRoom", r>>
    /\ UNCHANGED dispatchVars
    /\ UNCHANGED pageVars
    /\ UNCHANGED msgVars
    /\ UNCHANGED <<ws, socks, connected, reconnecting, manualDisconnect, reconnectDelay,
                   reconnectAttempts, timers, errPending, authRejected, fails, raced,
                   disconnectCalled>>
    /\ UNCHANGED typingVars

\* leaveRoom(roomId)
LeaveRoom(r) ==
    /\ errPending = 0
    /\ currentRooms' = Remove(currentRooms, r)
    /\ out' = LeaveSend(connected, ws, socks, <<>>, r)
    /\ wsUsed' = (wsUsed \/ out' # <<>>)
    /\ op' = <<"leaveRoom", r>>
    /\ UNCHANGED dispatchVars
    /\ UNCHANGED pageVars
    /\ UNCHANGED msgVars
    /\ UNCHANGED <<ws, socks, connected, reconnecting, manualDisconnect, reconnectDelay,
                   reconnectAttempts, timers, errPending, authRejected, fails, raced,
                   disconnectCalled>>
    /\ UNCHANGED typingVars

\* sendTyping(roomId, isTyping)
SendTypingUnguarded(r, t) ==
    /\ errPending = 0
    /\ out' = <<Frame("typing", r, t)>>
    /\ wsUsed' = TRUE
    /\ op' = <<"sendTyping", r>>
    /\ UNCHANGED dispatchVars
    /\ UNCHANGED pageVars
    /\ UNCHANGED msgVars
    /\ UNCHANGED <<ws, socks, connected, reconnecting, manualDisconnect, reconnectDelay,
                   reconnectAttempts, currentRooms, timers, errPending, authRejected,
                   fails, raced, disconnectCalled>>
    /\ UNCHANGED typingVars
SendTyping(r, t) ==
    /\ errPending = 0
    /\ out' = IF isConnected
              THEN SendIn(connected, ws, socks, <<>>, Frame("typing", r, t))
              ELSE <<>>
    /\ wsUsed' = (wsUsed \/ out' # <<>>)
    /\ op' = <<"sendTyping", r>>
    /\ UNCHANGED dispatchVars
    /\ UNCHANGED pageVars
    /\ UNCHANGED msgVars
    /\ UNCHANGED <<ws, socks, connected, reconnecting, manualDisconnect, reconnectDelay,
                   reconnectAttempts, currentRooms, timers, errPending, authRejected,
                   fails, raced, disconnectCalled>>
    /\ UNCHANGED typingVars

(* ---------------- WebSocketClient: browser events ---------------- *)
\* ws.onopen of socket s; a server that has rejected the client's token in a
\* handshake rejects it in every later handshake (this.token never changes)
SocketOpenKeepsAttempts(s) ==
    /\ errPending = 0
    /\ s \in 1..Len(socks)
    /\ socks[s].readyState = "CONNECTING"
    /\ ~authRejected
    /\ socks' = [socks EXCEPT ![s].readyState = "OPEN", ![s].settled = TRUE,
                               ![s].opened = TRUE]
    /\ connected' = TRUE
    /\ reconnecting' = FALSE
    /\ reconnectAttempts' = reconnectAttempts
    /\ reconnectDelay' = InitialReconnectDelay
    /\ out' = Append(RejoinAll(TRUE, ws, socks', currentRooms, <<>>, 1), Notify("onConnect"))
    /\ wsUsed' = (wsUsed \/ Frames(out') # <<>>)
    /\ fails' = 0
    /\ op' = <<"onopen", s>>
    /\ UNCHANGED dispatchVars
    /\ UNCHANGED pageVars
    /\ UNCHANGED msgVars
    /\ UNCHANGED <<ws, manualDisconnect, currentRooms, timers, errPending, authRejected,
                   raced, disconnectCalled>>
    /\ UNCHANGED typingVars
SocketOpenNoRejoin(s) ==
    /\ errPending = 0
    /\ s \in 1..Len(socks)
    /\ socks[s].readyState = "CONNECTING"
    /\ ~authRejected
    /\ socks' = [socks EXCEPT ![s].readyState = "OPEN", ![s].settled = TRUE,
                               ![s].opened = TRUE]
    /\ connected' = TRUE
    /\ reconnecting' = FALSE
    /\ reconnectAttempts' = 0
    /\ reconnectDelay' = InitialReconnectDelay
    /\ out' = <<Notify("onConnect")>>
    /\ wsUsed' = wsUsed
    /\ fails' = 0
    /\ op' = <<"onopen", s>>
    /\ UNCHANGED dispatchVars
    /\ UNCHANGED pageVars
    /\ UNCHANGED msgVars
    /\ UNCHANGED <<ws, manualDisconnect, currentRooms, timers, errPending, authRejected,
                   raced, disconnectCalled>>
    /\ UNCHANGED typingVars
SocketOpen(s) ==
    /\ errPending = 0
    /\ s \in 1..Len(socks)
    /\ socks[s].readyState = "CONNECTING"
    /\ ~authRejected
    /\ socks' = [socks EXCEPT ![s].readyState = "OPEN", ![s].settled = TRUE,
                               ![s].opened = TRUE]
    /\ connected' = TRUE
    /\ reconnecting' = FALSE
    /\ reconnectAttempts' = 0
    /\ reconnectDelay' = InitialReconnectDelay
    /\ out' = Append(RejoinAll(TRUE, ws, socks', currentRooms, <<>>, 1), Notify("onConnect"))
    /\ wsUsed' = (wsUsed \/ Frames(out') # <<>>)
    /\ fails' = 0
    /\ op' = <<"onopen", s>>
    /\ UNCHANGED dispatchVars
    /\ UNCHANGED pageVars
    /\ UNCHANGED msgVars
    /\ UNCHANGED <<ws, manualDisconnect, currentRooms, timers, errPending, authRejected,
                   raced, disconnectCalled>>
    /\ UNCHANGED typingVars

\* ws.onclose: the handler body, shared by the clean close and the close after an error
OnClose ==
    LET r == IF ~manualDisconnect
             THEN AttemptReconnect(reconnecting, manualDisconnect, reconnectAttempts,
                                   reconnectDelay, timers)
             ELSE [reconnecting |-> reconnecting, reconnectAttempts |-> reconnectAttempts,
                   timers |-> timers]
    IN  /\ connected' = FALSE
        /\ out' = <<Notify("onDisconnect")>>
        /\ reconnecting' = r.reconnecting
        /\ reconnectAttempts' = r.reconnectAttempts
        /\ timers' = r.timers
        /\ fails' = IF manualDisconnect THEN fails ELSE fails + 1

\* the transport of socket s closes without an error event
SocketClose(s) ==
    /\ errPending = 0
    /\ s \in 1..Len(socks)
    /\ socks[s].readyState \in {"OPEN", "CLOSING"}
    /\ socks' = [socks EXCEPT ![s].readyState = "CLOSED"]
    /\ OnClose
    /\ op' = <<"onclose", s>>
    /\ UNCHANGED dispatchVars
    /\ UNCHANGED pageVars
    /\ UNCHANGED msgVars
    /\ UNCHANGED <<ws, manualDisconnect, reconnectDelay, currentRooms, wsUsed, errPending,
                   authRejected, raced, disconnectCalled>>
    /\ UNCHANGED typingVars

\* ws.onerror of socket s: the connection failed or was lost; the socket is already
\* CLOSED when the error event is dispatched, and its close event follows.
\* reject(error) settles the promise of the connect() call that created s; when that
\* call was made by the retry timer its .catch runs at the next microtask checkpoint.
SocketErrorReconnects(s, cause) ==
    LET r == AttemptReconnect(reconnecting, manualDisconnect, reconnectAttempts,
                              reconnectDelay, timers)
    IN  /\ errPending = 0
        /\ s \in 1..Len(socks)
        /\ socks[s].readyState \in {"CONNECTING", "OPEN", "CLOSING"}
        /\ cause = "auth" => socks[s].readyState = "CONNECTING"
        /\ socks' = [socks EXCEPT ![s].readyState = "CLOSED", ![s].settled = TRUE]
        /\ connected' = FALSE
        /\ reconnecting' = r.reconnecting
        /\ reconnectAttempts' = r.reconnectAttempts
        /\ timers' = r.timers
        /\ authRejected' = (authRejected \/ cause = "auth")
        /\ out' = <<Notify("onError")>>
        /\ errPending' = s
        /\ op' = <<"onerror", s>>
        /\ UNCHANGED dispatchVars
        /\ UNCHANGED pageVars
        /\ UNCHANGED msgVars
        /\ UNCHANGED <<ws, manualDisconnect, reconnectDelay, currentRooms, wsUsed, fails,
                       raced, disconnectCalled>>
        /\ UNCHANGED typingVars
SocketError(s, cause) ==
    /\ errPending = 0
    /\ s \in 1..Len(socks)
    /\ socks[s].readyState \in {"CONNECTING", "OPEN", "CLOSING"}
    /\ cause = "auth" => socks[s].readyState = "CONNECTING"
    /\ socks' = [socks EXCEPT ![s].readyState = "CLOSED", ![s].settled = TRUE]
    /\ reconnecting' = IF ~socks[s].settled /\ socks[s].byTimer THEN FALSE ELSE reconnecting
    /\ authRejected' = (authRejected \/ cause = "auth")
    /\ out' = <<Notify("onError")>>
    /\ errPending' = s
    /\ op' = <<"onerror", s>>
    /\ UNCHANGED dispatchVars
    /\ UNCHANGED pageVars
    /\ UNCHANGED msgVars
    /\ UNCHANGED <<ws, connected, manualDisconnect, reconnectDelay, reconnectAttempts,
                   currentRooms, timers, wsUsed, fails, raced, disconnectCalled>>
    /\ UNCHANGED typingVars

\* the close event that follows the error event of socket errPending
SocketCloseAfterError ==
    /\ errPending # 0
    /\ OnClose
    /\ errPending' = 0
    /\ op' = <<"onclose", errPending>>
    /\ UNCHANGED dispatchVars
    /\ UNCHANGED pageVars
    /\ UNCHANGED msgVars
    /\ UNCHANGED <<ws, socks, manualDisconnect, reconnectDelay, currentRooms, wsUsed,
                   authRejected, raced, disconnectCalled>>
    /\ UNCHANGED typingVars

\* the setTimeout callback of attemptReconnect, for the i-th armed timer
TimerFireSkipsManualCheck(i, limit) ==
    /\ errPending = 0
    /\ i \in 1..Len(timers)
    /\ timers' = RemoveAt(timers, i)
    /\ ConnectBody(TRUE, limit)
    /\ out' = <<>>
    /\ op' = <<"timer", timers[i]>>
    /\ UNCHANGED dispatchVars
    /\ UNCHANGED pageVars
    /\ UNCHANGED msgVars
    /\ UNCHANGED <<connected, reconnecting, manualDisconnect, reconnectDelay,
                   reconnectAttempts, currentRooms, errPending, authRejected, fails,
                   raced, disconnectCalled>>
    /\ UNCHANGED typingVars
TimerFire(i, limit) ==
    /\ errPending = 0
    /\ i \in 1..Len(timers)
    /\ timers' = RemoveAt(timers, i)
    /\ IF ~manualDisconnect THEN ConnectBody(TRUE, limit) ELSE UNCHANGED <<ws, socks, wsUsed>>
    /\ out' = <<>>
    /\ op' = <<"timer", timers[i]>>
    /\ UNCHANGED dispatchVars
    /\ UNCHANGED pageVars
    /\ UNCHANGED msgVars
    /\ UNCHANGED <<connected, reconnecting, manualDisconnect, reconnectDelay,
                   reconnectAttempts, currentRooms, errPending, authRejected, fails,
                   raced, disconnectCalled>>
    /\ UNCHANGED typingVars

\* connect() when new WebSocket(url) throws: the catch block of the promise executor
\* rejects the promise; no socket exists and this.ws keeps its value
ConnectThrows ==
    /\ errPending = 0
    /\ ~connected
    /\ raced' = (raced \/ ~Idle)
    /\ out' = <<>>
    /\ op' = <<"connectThrows", 0>>
    /\ UNCHANGED dispatchVars
    /\ UNCHANGED pageVars
    /\ UNCHANGED msgVars
    /\ UNCHANGED <<ws, socks, wsUsed, connected, reconnecting, manualDisconnect,
                   reconnectDelay, reconnectAttempts, currentRooms, timers, errPending,
                   authRejected, fails, disconnectCalled>>
    /\ UNCHANGED typingVars

\* the setTimeout callback of attemptReconnect when new WebSocket(url) throws inside
\* its connect(): the promise is rejected and the .catch sets reconnecting = false
TimerFireThrows(i) ==
    /\ errPending = 0
    /\ i \in 1..Len(timers)
    /\ ~manualDisconnect
    /\ ~connected
    /\ timers' = RemoveAt(timers, i)
    /\ reconnecting' = FALSE
    /\ out' = <<>>
    /\ op' = <<"timerThrows", timers[i]>>
    /\ UNCHANGED dispatchVars
    /\ UNCHANGED pageVars
    /\ UNCHANGED msgVars
    /\ UNCHANGED <<ws, socks, wsUsed, connected, manualDisconnect, reconnectDelay,
                   reconnectAttempts, currentRooms, errPending, authRejected, fails,
                   raced, disconnectCalled>>
    /\ UNCHANGED typingVars

Next ==
    \/ Connect(MaxSockets)
    \/ Disconnect
    \/ \E r \in Rooms : JoinRoom(r)
    \/ \E r \in Rooms : LeaveRoom(r)
    \/ \E r \in Rooms, t \in BOOLEAN : SendTyping(r, t)
    \/ \E s \in 1..MaxSockets : SocketOpen(s)
    \/ \E s \in 1..MaxSockets : SocketClose(s)
    \/ \E s \in 1..MaxSockets, cause \in {"network", "auth"} : SocketError(s, cause)
    \/ SocketCloseAfterError
    \/ \E i \in 1..MaxSockets : TimerFire(i, MaxSockets)

Spec == Init /\ [][Next]_vars

\* The reconnection cycle alone, followed over more attempts: the application
\* uses no rooms, disconnects at any time and calls connect() when the client
\* is idle.
NextBackoff ==
    \/ (Idle /\ Connect(MaxChain))
    \/ Disconnect
    \/ \E s \in 1..MaxChain : SocketOpen(s)
    \/ \E s \in 1..MaxChain : SocketClose(s)
    \/ \E s \in 1..MaxChain, cause \in {"network", "auth"} : SocketError(s, cause)
    \/ SocketCloseAfterError
    \/ \E i \in 1..MaxChain : TimerFire(i, MaxChain)

SpecBackoff == Init /\ [][NextBackoff]_vars

\* The reconnection cycle when the creation of a socket can also throw
NextReconnect ==
    \/ NextBackoff
    \/ (Idle /\ ConnectThrows)
    \/ \E i \in 1..MaxChain : TimerFireThrows(i)

SpecReconnect == Init /\ [][NextReconnect]_vars

(* ---------------- useTypingIndicator ---------------- *)
\* The state in which the tracker runs: the provider's client is open and the
\* hook's effect has run for room hookRoom (joinRoom, then on('typing', handleTyping)).
InitTyping ==
    /\ hookRoom \in Rooms
    /\ currentUserId \in 0..MaxUser
    /\ typingUsers = <<>>
    /\ timeoutsRef = [u \in Users |-> 0]
    /\ armedTimers = {}
    /\ now = 0
    /\ lastTrue = [u \in Users |-> -1]
    /\ selectedRoomId = hookRoom
    /\ previousRoomRef = 0
    /\ localUser = currentUserId
    /\ messages = <<>>
    /\ wsMessages = <<>>
    /\ store = 0
    /\ pending = <<>>
    /\ loadingMessages = FALSE
    /\ requestPage = 0
    /\ response = -1
    /\ currentPage = 1
    /\ hasMoreMessages = FALSE
    /\ sent = 0
    /\ messageHandlers = [t \in HandlerTypes |-> <<>>]
    /\ dispatched = <<>>
    /\ frameNo = 0
    /\ ws = 1
    /\ socks = <<[readyState |-> "OPEN", settled |-> TRUE, byTimer |-> FALSE,
                 opened |-> TRUE]>>
    /\ connected = TRUE
    /\ reconnecting = FALSE
    /\ manualDisconnect = FALSE
    /\ reconnectDelay = InitialReconnectDelay
    /\ reconnectAttempts = 0
    /\ currentRooms = <<hookRoom>>
    /\ timers = <<>>
    /\ out = <<Frame("join", hookRoom, hookRoom), Notify("onConnect")>>
    /\ wsUsed = TRUE
    /\ op = <<"onopen", 1>>
    /\ errPending = 0
    /\ authRejected = FALSE
    /\ fails = 0
    /\ raced = FALSE
    /\ disconnectCalled = FALSE

ArmedFor(u) == {t \in armedTimers : t.user = u /\ t.at = timeoutsRef[u]}

\* handleTyping(msg) for an inbound typing frame (room_id, user_id, content.typing)
HandleTypingNoTimer(room, user, isTyping) ==
    /\ hookRoom # 0
    /\ \E s \in 1..Len(socks) : socks[s].readyState = "OPEN"
    /\ IF room # hookRoom \/ (currentUserId # 0 /\ user = currentUserId)
       THEN UNCHANGED <<typingUsers, timeoutsRef, armedTimers>>
       ELSE IF isTyping
       THEN /\ typingUsers' = IF ~InSeq(user, typingUsers)
                              THEN Append(typingUsers, user) ELSE typingUsers
            /\ UNCHANGED <<timeoutsRef, armedTimers>>
       ELSE /\ typingUsers' = Remove(typingUsers, user)
            /\ armedTimers' = IF timeoutsRef[user] # 0
                              THEN armedTimers \ ArmedFor(user) ELSE armedTimers
            /\ timeoutsRef' = [timeoutsRef EXCEPT ![user] = 0]
    /\ lastTrue' = IF room # hookRoom THEN lastTrue
                   ELSE [lastTrue EXCEPT ![user] = IF isTyping THEN now ELSE -1]
    /\ op' = <<"typing", user>>
    /\ UNCHANGED dispatchVars
    /\ UNCHANGED pageVars
    /\ UNCHANGED msgVars
    /\ out' = <<>>
    /\ UNCHANGED <<ws, socks, connected, reconnecting, manualDisconnect, reconnectDelay,
                   reconnectAttempts, currentRooms, timers, wsUsed, errPending,
                   authRejected, fails, raced, disconnectCalled>>
    /\ UNCHANGED <<hookRoom, currentUserId, now>>
HandleTypingStopKeepsTimer(room, user, isTyping) ==
    /\ hookRoom # 0
    /\ \E s \in 1..Len(socks) : socks[s].readyState = "OPEN"
    /\ IF room # hookRoom \/ (currentUserId # 0 /\ user = currentUserId)
       THEN UNCHANGED <<typingUsers, timeoutsRef, armedTimers>>
       ELSE IF isTyping
       THEN /\ typingUsers' = IF ~InSeq(user, typingUsers)
                              THEN Append(typingUsers, user) ELSE typingUsers
            /\ armedTimers' = ((IF timeoutsRef[user] # 0
                                THEN armedTimers \ ArmedFor(user) ELSE armedTimers)
                               \cup {[user |-> user, at |-> now + TypingExpiryMs]})
            /\ timeoutsRef' = [timeoutsRef EXCEPT ![user] = now + TypingExpiryMs]
       ELSE /\ typingUsers' = Remove(typingUsers, user)
            /\ armedTimers' = armedTimers
            /\ timeoutsRef' = [timeoutsRef EXCEPT ![user] = 0]
    /\ lastTrue' = IF room # hookRoom THEN lastTrue
                   ELSE [lastTrue EXCEPT ![user] = IF isTyping THEN now ELSE -1]
    /\ op' = <<"typing", user>>
    /\ UNCHANGED dispatchVars
    /\ UNCHANGED pageVars
    /\ UNCHANGED msgVars
    /\ out' = <<>>
    /\ UNCHANGED <<ws, socks, connected, reconnecting, manualDisconnect, reconnectDelay,
                   reconnectAttempts, currentRooms, timers, wsUsed, errPending,
                   authRejected, fails, raced, disconnectCalled>>
    /\ UNCHANGED <<hookRoom, currentUserId, now>>
HandleTypingKeepsOldTimer(room, user, isTyping) ==
    /\ hookRoom # 0
    /\ \E s \in 1..Len(socks) : socks[s].readyState = "OPEN"
    /\ IF room # hookRoom \/ (currentUserId # 0 /\ user = currentUserId)
       THEN UNCHANGED <<typingUsers, timeoutsRef, armedTimers>>
       ELSE IF isTyping
       THEN /\ typingUsers' = IF ~InSeq(user, typingUsers)
                              THEN Append(typingUsers, user) ELSE typingUsers
            /\ armedTimers' = armedTimers \cup {[user |-> user, at |-> now + TypingExpiryMs]}
            /\ timeoutsRef' = [timeoutsRef EXCEPT ![user] = now + TypingExpiryMs]
       ELSE /\ typingUsers' = Remove(typingUsers, user)
            /\ armedTimers' = IF timeoutsRef[user] # 0
                              THEN armedTimers \ ArmedFor(user) ELSE armedTimers
            /\ timeoutsRef' = [timeoutsRef EXCEPT ![user] = 0]
    /\ lastTrue' = IF room # hookRoom THEN lastTrue
                   ELSE [lastTrue EXCEPT ![user] = IF isTyping THEN now ELSE -1]
    /\ op' = <<"typing", user>>
    /\ UNCHANGED dispatchVars
    /\ UNCHANGED pageVars
    /\ UNCHANGED msgVars
    /\ out' = <<>>
    /\ UNCHANGED <<ws, socks, connected, reconnecting, manualDisconnect, reconnectDelay,
                   reconnectAttempts, currentRooms, timers, wsUsed, errPending,
                   authRejected, fails, raced, disconnectCalled>>
    /\ UNCHANGED <<hookRoom, currentUserId, now>>
HandleTyping(room, user, isTyping) ==
    /\ hookRoom # 0
    /\ \E s \in 1..Len(socks) : socks[s].readyState = "OPEN"
    /\ IF room # hookRoom \/ (currentUserId # 0 /\ user = currentUserId)
       THEN UNCHANGED <<typingUsers, timeoutsRef, armedTimers>>
       ELSE IF isTyping
       THEN /\ typingUsers' = IF ~InSeq(user, typingUsers)
                              THEN Append(typingUsers, user) ELSE typingUsers
            /\ armedTimers' = ((IF timeoutsRef[user] # 0
                                THEN armedTimers \ ArmedFor(user) ELSE armedTimers)
                               \cup {[user |-> user, at |-> now + TypingExpiryMs]})
            /\ timeoutsRef' = [timeoutsRef EXCEPT ![user] = now + TypingExpiryMs]
       ELSE /\ typingUsers' = Remove(typingUsers, user)
            /\ armedTimers' = IF timeoutsRef[user] # 0
                              THEN armedTimers \ ArmedFor(user) ELSE armedTimers
            /\ timeoutsRef' = [timeoutsRef EXCEPT ![user] = 0]
    /\ lastTrue' = IF room # hookRoom THEN lastTrue
                   ELSE [lastTrue EXCEPT ![user] = IF isTyping THEN now ELSE -1]
    /\ op' = <<"typing", user>>
    /\ UNCHANGED dispatchVars
    /\ UNCHANGED pageVars
    /\ UNCHANGED msgVars
    /\ out' = <<>>
    /\ UNCHANGED <<ws, socks, connected, reconnecting, manualDisconnect, reconnectDelay,
                   reconnectAttempts, currentRooms, timers, wsUsed, errPending,
                   authRejected, fails, raced, disconnectCalled>>
    /\ UNCHANGED <<hookRoom, currentUserId, now>>

\* the setTimeout callback of handleTyping for the armed timer t, run when it is due
ExpiryFire(t) ==
    /\ t \in armedTimers
    /\ t.at <= now
    /\ typingUsers' = Remove(typingUsers, t.user)
    /\ timeoutsRef' = [timeoutsRef EXCEPT ![t.user] = 0]
    /\ armedTimers' = armedTimers \ {t}
    /\ op' = <<"expiry", t.user>>
    /\ UNCHANGED dispatchVars
    /\ UNCHANGED pageVars
    /\ UNCHANGED msgVars
    /\ out' = <<>>
    /\ UNCHANGED <<ws, socks, connected, reconnecting, manualDisconnect, reconnectDelay,
                   reconnectAttempts, currentRooms, timers, wsUsed, errPending,
                   authRejected, fails, raced, disconnectCalled>>
    /\ UNCHANGED <<hookRoom, currentUserId, now, lastTrue>>

\* the earliest deadline of an armed timer after time t, or far if there is none
NextDeadline(t, far) ==
    IF \E x \in armedTimers : x.at > t
    THEN CHOOSE d \in {x.at : x \in armedTimers} :
             d > t /\ \A x \in armedTimers : x.at > t => d <= x.at
    ELSE far

\* time passes, up to the next deadline at most; a due timer runs before the clock
\* moves on
Tick ==
    /\ now + ClockStep <= MaxTicks * ClockStep
    /\ \A t \in armedTimers : t.at > now
    /\ now' = Min(now + ClockStep, NextDeadline(now, now + ClockStep))
    /\ op' = <<"tick", 0>>
    /\ UNCHANGED dispatchVars
    /\ UNCHANGED pageVars
    /\ UNCHANGED msgVars
    /\ out' = <<>>
    /\ UNCHANGED <<ws, socks, connected, reconnecting, manualDisconnect, reconnectDelay,
                   reconnectAttempts, currentRooms, timers, wsUsed, errPending,
                   authRejected, fails, raced, disconnectCalled>>
    /\ UNCHANGED <<hookRoom, currentUserId, typingUsers, timeoutsRef, armedTimers, lastTrue>>

NextTyping ==
    \/ \E room \in Rooms, user \in Users, isTyping \in BOOLEAN :
           HandleTyping(room, user, isTyping)
    \/ \E t \in armedTimers : ExpiryFire(t)
    \/ Tick

SpecTyping == InitTyping /\ [][NextTyping]_vars

(* ---------------- ChatPageContent: useWebSocket and TypingIndicator ---------------- *)
\* The chat page calls useWebSocket(selectedRoomId) and, while a room is selected,
\* renders TypingIndicator, which calls useTypingIndicator(roomId, user?.id) with the
\* user of its own useAuth(): null until its getProfile() has resolved.  Both hooks
\* use the provider's client.  One commit of React runs the effect cleanups of the
\* previous render, children first, and then the effects, children first.

\* the provider's client is open and no room is selected
InitHooks ==
    /\ selectedRoomId = 0
    /\ previousRoomRef = 0
    /\ localUser \in Users
    /\ messages = <<>>
    /\ wsMessages = <<>>
    /\ store = 0
    /\ pending = <<>>
    /\ loadingMessages = FALSE
    /\ requestPage = 0
    /\ response = -1
    /\ currentPage = 1
    /\ hasMoreMessages = FALSE
    /\ sent = 0
    /\ messageHandlers = [t \in HandlerTypes |-> <<>>]
    /\ dispatched = <<>>
    /\ frameNo = 0
    /\ hookRoom = 0
    /\ currentUserId = 0
    /\ typingUsers = <<>>
    /\ timeoutsRef = [u \in Users |-> 0]
    /\ armedTimers = {}
    /\ now = 0
    /\ lastTrue = [u \in Users |-> -1]
    /\ ws = 1
    /\ socks = <<[readyState |-> "OPEN", settled |-> TRUE, byTimer |-> FALSE,
                 opened |-> TRUE]>>
    /\ connected = TRUE
    /\ reconnecting = FALSE
    /\ manualDisconnect = FALSE
    /\ reconnectDelay = InitialReconnectDelay
    /\ reconnectAttempts = 0
    /\ currentRooms = <<>>
    /\ timers = <<>>
    /\ out = <<Notify("onConnect")>>
    /\ wsUsed = FALSE
    /\ op = <<"onopen", 1>>
    /\ errPending = 0
    /\ authRejected = FALSE
    /\ fails = 0
    /\ raced = FALSE
    /\ disconnectCalled = FALSE

\* client.joinRoom(r) and client.leaveRoom(r) on st = [rooms, log] inside a commit
ClientJoin(st, r) ==
    [rooms |-> SetAdd(st.rooms, r), log |-> JoinSend(connected, ws, socks, st.log, r)]
ClientLeave(st, r) ==
    [rooms |-> Remove(st.rooms, r), log |-> LeaveSend(connected, ws, socks, st.log, r)]

\* useTypingIndicator: the client calls of the effect cleanup and of the effect
TypingCleanup(st, room) == IF room = 0 THEN st ELSE ClientLeave(st, room)
TypingEffect(st, room) == IF room = 0 THEN st ELSE ClientJoin(st, room)

\* useWebSocket: the cleanup of the room effect and the room effect
RoomCleanup(st, room) == IF room # 0 THEN ClientLeave(st, room) ELSE st
RoomEffect(st, prev, room) ==
    LET a == IF prev # 0 THEN ClientLeave(st, prev) ELSE st
    IN  IF room # 0 THEN ClientJoin(a, room) ELSE a

\* setSelectedRoomId(r) and the commit that follows
SelectRoomNeverLeaves(r) ==
    /\ errPending = 0
    /\ r # selectedRoomId
    /\ LET s0 == [rooms |-> currentRooms, log |-> <<>>]
           s3 == TypingEffect(s0, r)
           s4 == IF r # 0 THEN ClientJoin(s3, r) ELSE s3
           kept == selectedRoomId # 0 /\ r # 0
       IN  /\ currentRooms' = s4.rooms
           /\ out' = s4.log
           /\ typingUsers' = IF kept THEN typingUsers ELSE <<>>
           /\ currentUserId' = IF kept THEN currentUserId ELSE 0
    /\ wsUsed' = (wsUsed \/ out' # <<>>)
    /\ selectedRoomId' = r
    /\ previousRoomRef' = IF r # 0 THEN r ELSE previousRoomRef
    /\ hookRoom' = r
    /\ timeoutsRef' = [u \in Users |-> 0]
    /\ armedTimers' = {}
    /\ lastTrue' = [u \in Users |-> -1]
    /\ op' = <<"selectRoom", r>>
    /\ UNCHANGED dispatchVars
    /\ UNCHANGED <<ws, socks, connected, reconnecting, manualDisconnect, reconnectDelay,
                   reconnectAttempts, timers, errPending, authRejected, fails, raced,
                   disconnectCalled>>
    /\ UNCHANGED <<now, localUser>>
    /\ UNCHANGED msgVars
SelectRoom(r) ==
    /\ errPending = 0
    /\ r # selectedRoomId
    /\ LET s0 == [rooms |-> currentRooms, log |-> <<>>]
           s1 == TypingCleanup(s0, hookRoom)
           s2 == RoomCleanup(s1, selectedRoomId)
           s3 == TypingEffect(s2, r)
           s4 == RoomEffect(s3, previousRoomRef, r)
           \* TypingIndicator stays mounted across a switch between two rooms
           kept == selectedRoomId # 0 /\ r # 0
       IN  /\ currentRooms' = s4.rooms
           /\ out' = s4.log
           /\ typingUsers' = IF kept THEN typingUsers ELSE <<>>
           /\ currentUserId' = IF kept THEN currentUserId ELSE 0
    /\ wsUsed' = (wsUsed \/ out' # <<>>)
    /\ selectedRoomId' = r
    /\ previousRoomRef' = IF r # 0 THEN r ELSE previousRoomRef
    /\ hookRoom' = r
    /\ timeoutsRef' = [u \in Users |-> 0]
    /\ armedTimers' = {}
    /\ lastTrue' = [u \in Users |-> -1]
    /\ op' = <<"selectRoom", r>>
    /\ UNCHANGED dispatchVars
    /\ UNCHANGED <<ws, socks, connected, reconnecting, manualDisconnect, reconnectDelay,
                   reconnectAttempts, timers, errPending, authRejected, fails, raced,
                   disconnectCalled>>
    /\ UNCHANGED <<now, localUser>>
    /\ UNCHANGED msgVars

\* getProfile() of TypingIndicator's useAuth resolves: currentUserId changes from
\* undefined to the user's id and the effect of useTypingIndicator runs again
ProfileLoaded ==
    /\ errPending = 0
    /\ hookRoom # 0
    /\ currentUserId = 0
    /\ currentUserId' = localUser
    /\ LET s0 == [rooms |-> currentRooms, log |-> <<>>]
           s1 == TypingCleanup(s0, hookRoom)
           s2 == TypingEffect(s1, hookRoom)
       IN  /\ currentRooms' = s2.rooms
           /\ out' = s2.log
    /\ wsUsed' = (wsUsed \/ out' # <<>>)
    /\ timeoutsRef' = [u \in Users |-> 0]
    /\ armedTimers' = {}
    /\ op' = <<"profile", localUser>>
    /\ UNCHANGED dispatchVars
    /\ UNCHANGED <<ws, socks, connected, reconnecting, manualDisconnect, reconnectDelay,
                   reconnectAttempts, timers, errPending, authRejected, fails, raced,
                   disconnectCalled>>
    /\ UNCHANGED <<hookRoom, typingUsers, now, lastTrue, selectedRoomId, previousRoomRef,
                   localUser>>
    /\ UNCHANGED msgVars

NextHooks ==
    \/ \E r \in 0..MaxRoom : SelectRoom(r)
    \/ ProfileLoaded
    \/ \E room \in Rooms, user \in Users, isTyping \in BOOLEAN :
           HandleTyping(room, user, isTyping)
    \/ \E t \in armedTimers : ExpiryFire(t)
    \/ Tick

SpecHooks == InitHooks /\ [][NextHooks]_vars

\* room selection while the transport of the provider's client is lost and restored
NextRooms ==
    \/ \E r \in 0..MaxRoom : SelectRoom(r)
    \/ ProfileLoaded
    \/ \E s \in 1..Len(socks) : SocketOpen(s)
    \/ \E s \in 1..Len(socks) : SocketClose(s)
    \/ \E i \in 1..Len(timers) : TimerFire(i, MaxSockets)

SpecRooms == InitHooks /\ [][NextRooms]_vars

(* ---------------- WebSocketClient: inbound dispatch ---------------- *)
\* handleMessage(message): the handlers of the frame's type, then those of 'all',
\* each Set in insertion order
HandleMessageSkipsAll(mh, frame) ==
    [i \in 1..Len(mh[frame.type]) |-> <<mh[frame.type][i], frame>>]
HandleMessage(mh, frame) ==
    [i \in 1..Len(mh[frame.type]) |-> <<mh[frame.type][i], frame>>]
    \o [i \in 1..Len(mh["all"]) |-> <<mh["all"][i], frame>>]

\* on(type, handler)
On(type, h) ==
    /\ messageHandlers' = [messageHandlers EXCEPT ![type] = SetAdd(@, h)]
    /\ dispatched' = <<>>
    /\ out' = <<>>
    /\ op' = <<"on", <<type, h>>>>
    /\ UNCHANGED frameNo
    /\ UNCHANGED <<ws, socks, connected, reconnecting, manualDisconnect, reconnectDelay,
                   reconnectAttempts, currentRooms, timers, wsUsed, errPending,
                   authRejected, fails, raced, disconnectCalled>>
    /\ UNCHANGED typingVars
    /\ UNCHANGED pageVars
    /\ UNCHANGED msgVars

\* off(type, handler)
Off(type, h) ==
    /\ messageHandlers' = [messageHandlers EXCEPT ![type] = Remove(@, h)]
    /\ dispatched' = <<>>
    /\ out' = <<>>
    /\ op' = <<"off", <<type, h>>>>
    /\ UNCHANGED frameNo
    /\ UNCHANGED <<ws, socks, connected, reconnecting, manualDisconnect, reconnectDelay,
                   reconnectAttempts, currentRooms, timers, wsUsed, errPending,
                   authRejected, fails, raced, disconnectCalled>>
    /\ UNCHANGED typingVars
    /\ UNCHANGED pageVars
    /\ UNCHANGED msgVars

\* ws.onmessage for the next frame of the current transport: JSON.parse, then
\* handleMessage; data that does not parse is logged and dropped
OnMessage(type, parses) ==
    /\ errPending = 0
    /\ isConnected
    /\ frameNo < MaxFrames
    /\ frameNo' = frameNo + 1
    /\ dispatched' = IF parses
                     THEN HandleMessage(messageHandlers, [type |-> type, no |-> frameNo'])
                     ELSE <<>>
    /\ out' = <<>>
    /\ op' = <<IF parses THEN "message" ELSE "unparsed", type>>
    /\ UNCHANGED messageHandlers
    /\ UNCHANGED <<ws, socks, connected, reconnecting, manualDisconnect, reconnectDelay,
                   reconnectAttempts, currentRooms, timers, wsUsed, errPending,
                   authRejected, fails, raced, disconnectCalled>>
    /\ UNCHANGED typingVars
    /\ UNCHANGED pageVars
    /\ UNCHANGED msgVars

NextDispatch ==
    \/ \E type \in HandlerTypes, h \in Handlers : On(type, h)
    \/ \E type \in HandlerTypes, h \in Handlers : Off(type, h)
    \/ \E type \in FrameTypes, parses \in BOOLEAN : OnMessage(type, parses)

SpecDispatch == InitHooks /\ [][NextDispatch]_vars

(* ---------------- ChatPageContent: sending and showing messages ---------------- *)
\* A room has just been selected: both hooks have joined it on the open client and
\* the page's getMessages(roomId, 1) request is outstanding.
InitPageStore(stores) ==
    /\ selectedRoomId \in Rooms
    /\ previousRoomRef = selectedRoomId
    /\ localUser \in Users
    /\ messages = <<>>
    /\ wsMessages = <<>>
    /\ store \in stores
    /\ pending = <<>>
    /\ loadingMessages = TRUE
    /\ requestPage = 1
    /\ response = -1
    /\ currentPage = 1
    /\ hasMoreMessages = FALSE
    /\ sent = 0
    /\ messageHandlers = [t \in HandlerTypes |-> <<>>]
    /\ dispatched = <<>>
    /\ frameNo = 0
    /\ hookRoom = selectedRoomId
    /\ currentUserId = 0
    /\ typingUsers = <<>>
    /\ timeoutsRef = [u \in Users |-> 0]
    /\ armedTimers = {}
    /\ now = 0
    /\ lastTrue = [u \in Users |-> -1]
    /\ ws = 1
    /\ socks = <<[readyState |-> "OPEN", settled |-> TRUE, byTimer |-> FALSE,
                 opened |-> TRUE]>>
    /\ connected = TRUE
    /\ reconnecting = FALSE
    /\ manualDisconnect = FALSE
    /\ reconnectDelay = InitialReconnectDelay
    /\ reconnectAttempts = 0
    /\ currentRooms = <<selectedRoomId>>
    /\ timers = <<>>
    /\ out = <<Frame("join", selectedRoomId, selectedRoomId),
               Frame("join", selectedRoomId, selectedRoomId)>>
    /\ wsUsed = TRUE
    /\ op = <<"selectRoom", selectedRoomId>>
    /\ errPending = 0
    /\ authRejected = FALSE
    /\ fails = 0
    /\ raced = FALSE
    /\ disconnectCalled = FALSE

InitPage == InitPageStore(0..1)

\* handleSendMessage(content): the REST call succeeds (the server stores the message
\* and broadcasts it to the room) or fails
HandleSendMessage(ok) ==
    /\ selectedRoomId # 0
    /\ IF ok
       THEN /\ sent < MaxMsg
            /\ store' = store + 1
            /\ sent' = sent + 1
            /\ pending' = Append(pending, store + 1)
            /\ op' = <<"sendMessage", store + 1>>
       ELSE /\ UNCHANGED <<store, sent, pending>>
            /\ op' = <<"sendFailed", 0>>
    /\ out' = <<>>
    /\ UNCHANGED <<messages, wsMessages, loadingMessages, requestPage, response,
                   currentPage, hasMoreMessages>>
    /\ UNCHANGED <<ws, socks, connected, reconnecting, manualDisconnect, reconnectDelay,
                   reconnectAttempts, currentRooms, timers, wsUsed, errPending,
                   authRejected, fails, raced, disconnectCalled>>
    /\ UNCHANGED typingVars
    /\ UNCHANGED pageVars
    /\ UNCHANGED dispatchVars

\* the wsMessages effect of the page: append the hook's messages not yet displayed
AppendWsMessages(prev, wsm) ==
    IF Len(wsm) > 0 THEN prev \o SelectSeq(wsm, LAMBDA m : ~InSeq(m, prev)) ELSE prev

\* a broadcast 'message' frame reaches the client: useWebSocket.handleMessage appends
\* it to the hook's messages and the page's effect appends them to the displayed list
BroadcastDelivered ==
    /\ pending # <<>>
    /\ isConnected
    /\ wsMessages' = Append(wsMessages, Head(pending))
    /\ messages' = AppendWsMessages(messages, wsMessages')
    /\ pending' = Tail(pending)
    /\ op' = <<"message", Head(pending)>>
    /\ out' = <<>>
    /\ UNCHANGED <<store, loadingMessages, requestPage, response, currentPage,
                   hasMoreMessages, sent>>
    /\ UNCHANGED <<ws, socks, connected, reconnecting, manualDisconnect, reconnectDelay,
                   reconnectAttempts, currentRooms, timers, wsUsed, errPending,
                   authRejected, fails, raced, disconnectCalled>>
    /\ UNCHANGED typingVars
    /\ UNCHANGED pageVars
    /\ UNCHANGED dispatchVars

\* a broadcast frame never reaches the client
BroadcastDropped ==
    /\ pending # <<>>
    /\ pending' = Tail(pending)
    /\ op' = <<"dropped", Head(pending)>>
    /\ out' = <<>>
    /\ UNCHANGED <<messages, wsMessages, store, loadingMessages, requestPage, response,
                   currentPage, hasMoreMessages, sent>>
    /\ UNCHANGED <<ws, socks, connected, reconnecting, manualDisconnect, reconnectDelay,
                   reconnectAttempts, currentRooms, timers, wsUsed, errPending,
                   authRejected, fails, raced, disconnectCalled>>
    /\ UNCHANGED typingVars
    /\ UNCHANGED pageVars
    /\ UNCHANGED dispatchVars

\* GET /v1/rooms/:id/messages?page=&limit=50 of n stored messages: the page, newest
\* first, reversed by loadMessagesForRoom for display (ids ascending)
GetMessages(n, page) ==
    LET hi == n - (page - 1) * PageSize
        lo == IF n - page * PageSize + 1 > 1 THEN n - page * PageSize + 1 ELSE 1
    IN  IF hi < lo THEN <<>> ELSE [i \in 1..(hi - lo + 1) |-> lo + i - 1]
\* response.pagination.totalPages
TotalPages(n) == (n + PageSize - 1) \div PageSize

\* the server reads the stored messages for the outstanding getMessages request
GetMessagesServed ==
    /\ loadingMessages
    /\ response = -1
    /\ response' = store
    /\ op' = <<"served", store>>
    /\ out' = <<>>
    /\ UNCHANGED <<messages, wsMessages, store, pending, loadingMessages, requestPage,
                   currentPage, hasMoreMessages, sent>>
    /\ UNCHANGED <<ws, socks, connected, reconnecting, manualDisconnect, reconnectDelay,
                   reconnectAttempts, currentRooms, timers, wsUsed, errPending,
                   authRejected, fails, raced, disconnectCalled>>
    /\ UNCHANGED typingVars
    /\ UNCHANGED pageVars
    /\ UNCHANGED dispatchVars

\* loadMessagesForRoom(roomId, page): the getMessages response arrives
MessagesLoaded ==
    /\ loadingMessages
    /\ response # -1
    /\ IF requestPage = 1
       THEN /\ messages' = GetMessages(response, 1)
            /\ wsMessages' = <<>>
       ELSE /\ messages' = GetMessages(response, requestPage) \o messages
            /\ UNCHANGED wsMessages
    /\ currentPage' = requestPage
    /\ hasMoreMessages' = (requestPage < TotalPages(response))
    /\ loadingMessages' = FALSE
    /\ response' = -1
    /\ requestPage' = 0
    /\ op' = <<"loaded", requestPage>>
    /\ out' = <<>>
    /\ UNCHANGED <<store, pending, sent>>
    /\ UNCHANGED <<ws, socks, connected, reconnecting, manualDisconnect, reconnectDelay,
                   reconnectAttempts, currentRooms, timers, wsUsed, errPending,
                   authRejected, fails, raced, disconnectCalled>>
    /\ UNCHANGED typingVars
    /\ UNCHANGED pageVars
    /\ UNCHANGED dispatchVars

\* handleLoadMore(): request the next older page
HandleLoadMore ==
    /\ selectedRoomId # 0
    /\ ~loadingMessages
    /\ hasMoreMessages
    /\ loadingMessages' = TRUE
    /\ requestPage' = currentPage + 1
    /\ op' = <<"loadMore", currentPage + 1>>
    /\ out' = <<>>
    /\ UNCHANGED <<messages, wsMessages, store, pending, response, currentPage,
                   hasMoreMessages, sent>>
    /\ UNCHANGED <<ws, socks, connected, reconnecting, manualDisconnect, reconnectDelay,
                   reconnectAttempts, currentRooms, timers, wsUsed, errPending,
                   authRejected, fails, raced, disconnectCalled>>
    /\ UNCHANGED typingVars
    /\ UNCHANGED pageVars
    /\ UNCHANGED dispatchVars

NextPage ==
    \/ \E ok \in BOOLEAN : HandleSendMessage(ok)
    \/ BroadcastDelivered
    \/ BroadcastDropped
    \/ GetMessagesServed
    \/ MessagesLoaded

SpecPage == InitPage /\ [][NextPage]_vars

\* The page opened on a room that holds one message more than a page
InitPaging == InitPageStore({PageSize + 1})

NextPaging ==
    \/ NextPage
    \/ HandleLoadMore

SpecPaging == InitPaging /\ [][NextPaging]_vars

(* ======================= properties ======================= *)
JoinCount(o, r) == Len(SelectSeq(o, LAMBDA e : e = Frame("join", r, r)))

HasTyping(o) == \E i \in 1..Len(o) : o[i].type = "typing"

\* the current transport has been open, the client holds itself connected, and the
\* transport is open still or its error event has just run
OpenClient ==
    /\ ws # 0
    /\ connected
    /\ socks[ws].opened
    /\ (socks[ws].readyState = "OPEN" \/ errPending = ws)

\* C1: from the start or the last open, the i-th consecutive non-manual close of a
\* client whose attempts follow one another arms a retry timer of
\* 5, 10, 20, 40, 60, 60, ... seconds, and an open resets the attempt counter to 0,
\* so that the close that follows an open arms a timer of 5 seconds.
C1_Delay(i) ==
    IF i = 1 THEN 5000 ELSE IF i = 2 THEN 10000 ELSE IF i = 3 THEN 20000
    ELSE IF i = 4 THEN 40000 ELSE 60000
C1_Backoff ==
    [][/\ (op'[1] = "onclose" /\ ~manualDisconnect /\ ~raced)
            => (fails' = fails + 1 /\ timers' = Append(timers, C1_Delay(fails')))
       /\ op'[1] = "onopen"
            => (reconnectAttempts' = 0 /\ reconnectDelay' = 5000 /\ fails' = 0)]_vars
C1_Witness ==
    /\ fails = 6
    /\ op[1] = "onclose"
    /\ ~manualDisconnect
    /\ timers = <<60000>>

\* C2: when the current transport opens, the step writes exactly one join frame for
\* each room of the desired set and no other frame, no frame was written to that
\* transport before, and the connect handlers are notified after the join frames.
C2_Replay ==
    [][(ws # 0 /\ op' = <<"onopen", ws>>)
         => /\ ~wsUsed
            /\ Len(out') = Len(currentRooms) + 1
            /\ out'[Len(out')] = Notify("onConnect")
            /\ \A i \in 1..(Len(out') - 1) : out'[i].type = "join"
            /\ \A r \in Rooms :
                   JoinCount(out', r) = IF InSeq(r, currentRooms) THEN 1 ELSE 0]_vars
C2_Witness ==
    /\ ws # 0
    /\ op = <<"onopen", ws>>
    /\ socks[ws].byTimer
    /\ \E s \in 1..(ws - 1) : socks[s].opened
    /\ Len(currentRooms) = 2
    /\ JoinCount(out, 1) = 1
    /\ JoinCount(out, 2) = 1

\* C3: once disconnect() has been called, a new transport is created only by an
\* explicit connect(), and no retry timer is armed.
C3_ManualSuppresses ==
    [][disconnectCalled
         => /\ Len(socks') > Len(socks) => op'[1] = "connect"
            /\ Len(timers') <= Len(timers)]_vars
C3_Witness ==
    /\ disconnectCalled
    /\ op[1] = "timer"
    /\ \E s \in 1..Len(socks) : socks[s].readyState = "CLOSED"

\* C4: after disconnect() and an explicit connect() that reached open, the loss of
\* that transport puts the client in the reconnecting state and arms a retry
\* timer of 5 seconds.
C4_ConnectClearsManual ==
    [][(OpenClient /\ disconnectCalled /\ ~socks[ws].byTimer /\ op' = <<"onclose", ws>>)
         => (reconnecting' /\ timers' = Append(timers, 5000))]_vars

\* C5: when the transport of an open client that is not manually disconnected
\* closes, the close step leaves the client not connected and reconnecting and arms
\* exactly one retry timer, of 5 seconds.
C5_LossStartsReconnect ==
    [][(OpenClient /\ ~manualDisconnect /\ op' = <<"onclose", ws>>)
         => /\ ~connected'
            /\ reconnecting'
            /\ timers' = Append(timers, 5000)]_vars
C5_Witness ==
    /\ ws # 0
    /\ op = <<"onclose", ws>>
    /\ socks[ws].opened
    /\ ~manualDisconnect
    /\ ~connected
    /\ reconnecting
    /\ timers = <<5000>>

\* C6: joinRoom(r) puts r in the desired room set and leaveRoom(r) takes it out, in
\* every state; the call writes one join / leave frame for r when isConnected()
\* holds and nothing otherwise; and when the current transport opens a room gets a
\* join frame exactly when it is in the desired set.
C6_JoinLeave ==
    [][/\ \A r \in Rooms : op' = <<"joinRoom", r>>
            => /\ InSeq(r, currentRooms')
               /\ \A q \in Rooms \ {r} : InSeq(q, currentRooms') = InSeq(q, currentRooms)
               /\ out' = IF isConnected THEN <<Frame("join", r, r)>> ELSE <<>>
       /\ \A r \in Rooms : op' = <<"leaveRoom", r>>
            => /\ ~InSeq(r, currentRooms')
               /\ \A q \in Rooms \ {r} : InSeq(q, currentRooms') = InSeq(q, currentRooms)
               /\ out' = IF isConnected THEN <<Frame("leave", r, r)>> ELSE <<>>
       /\ (ws # 0 /\ op' = <<"onopen", ws>>)
            => \A r \in Rooms : (JoinCount(out', r) > 0) = InSeq(r, currentRooms)]_vars
C6_Witness ==
    /\ op[1] = "joinRoom"
    /\ ~isConnected
    /\ out = <<>>
    /\ InSeq(op[2], currentRooms)
    /\ Len(socks) >= 1

\* C7: a sendTyping call made while isConnected() is false writes nothing and
\* changes no field of the client, and a typing frame is written only by a
\* sendTyping call made while isConnected() holds.
C7_TypingDropped ==
    [][/\ (op'[1] = "sendTyping" /\ ~isConnected)
            => /\ out' = <<>>
               /\ UNCHANGED <<ws, socks, connected, reconnecting, manualDisconnect,
                              reconnectDelay, reconnectAttempts, currentRooms, timers>>
       /\ HasTyping(out') => (op'[1] = "sendTyping" /\ isConnected)]_vars
C7_Witness ==
    /\ op[1] = "sendTyping"
    /\ ~isConnected
    /\ out = <<>>
    /\ Len(socks) >= 2

\* C8 as stated: once the error event of the open current transport has been
\* handled, the client is not connected, is reconnecting and has a retry armed.
C8_ErrorActsAsClose ==
    (ws # 0 /\ op = <<"onerror", ws>> /\ socks[ws].opened /\ ~manualDisconnect)
        => (~connected /\ reconnecting /\ timers # <<>>)

\* C8 amended: the error event of the open current transport notifies the onError
\* handlers and changes neither the connected flag, the reconnecting flag, the
\* attempt counter nor the timers; the close event that follows it notifies the
\* onDisconnect handlers, leaves the client not connected and reconnecting and arms
\* the retry timer.
C8_ErrorThenClose ==
    [][/\ (OpenClient /\ ~manualDisconnect /\ op' = <<"onerror", ws>>)
            => /\ out' = <<Notify("onError")>>
               /\ errPending' = ws
               /\ UNCHANGED <<connected, reconnecting, reconnectAttempts, timers>>
       /\ (OpenClient /\ ~manualDisconnect /\ errPending = ws /\ op' = <<"onclose", ws>>)
            => /\ out' = <<Notify("onDisconnect")>>
               /\ ~connected'
               /\ reconnecting'
               /\ timers' = Append(timers, 5000)]_vars
C8_Witness ==
    /\ ws # 0
    /\ errPending = ws
    /\ op = <<"onerror", ws>>
    /\ socks[ws].opened
    /\ connected
    /\ ~manualDisconnect
    /\ ~reconnecting
    /\ timers = <<>>

\* C9: once the server has rejected the credential in a handshake, a new transport
\* is created only by an explicit connect().
C9_RejectionTerminal ==
    [][authRejected => (Len(socks') > Len(socks) => op'[1] = "connect")]_vars

C13_NoSelfTyping ==
    ~InSeq(localUser, typingUsers)

\* C14: the typing list shown for the monitored room holds only users whose
\* typing=true for that room has been received since the room became the
\* monitored one and has not been stopped (the logged-in user, whose own events
\* the tracker is meant to ignore, is left aside)
C14_NoCarryOver ==
    \A u \in Users : (u # localUser /\ InSeq(u, typingUsers)) => lastTrue[u] >= 0

\* C17: the desired room set of the client is the selected room, or empty when
\* no room is selected, after every commit of the page
C17_OneActiveRoom ==
    currentRooms = IF selectedRoomId = 0 THEN <<>> ELSE <<selectedRoomId>>
\* a room is selected again after a deselection, when previousRoomRef still names
\* a room: the room effect leaves that room before it joins the selected one
C17_Witness ==
    /\ op[1] = "selectRoom"
    /\ selectedRoomId # 0
    /\ currentRooms = <<selectedRoomId>>
    /\ Len(out) = 3
    /\ out[1].type = "join" /\ out[2].type = "leave" /\ out[3].type = "join"
    /\ out[2].room_id # selectedRoomId
    /\ Len(socks) > 1

\* C15: disconnect() leaves every room: the desired room set is empty after it
C15_DisconnectLeavesAll ==
    [][op'[1] = "disconnect" => currentRooms' = <<>>]_vars

\* C16: a message whose REST call has succeeded is in the displayed message list
\* once no response and no broadcast is outstanding any more, whether its
\* broadcast was delivered or not
C16_RestAuthoritative ==
    (pending = <<>> /\ ~loadingMessages) => \A m \in 1..store : InSeq(m, messages)

\* C23: at most one WebSocket created by the client is CONNECTING or OPEN
C23_OneLiveTransport ==
    Cardinality({s \in 1..Len(socks) : socks[s].readyState \in {"CONNECTING", "OPEN"}}) <= 1

\* C24: the close event of a transport that disconnect() closed, delivered after
\* a later connect() has created the client's current transport, changes neither
\* the connected flag nor notifies the disconnect handlers
C24_StaleEventsIgnored ==
    [][(/\ ws # 0
        /\ op'[1] = "onclose"
        /\ op'[2] # ws
        /\ socks[op'[2]].readyState = "CLOSING")
          => (/\ connected' = connected
              /\ \A i \in 1..Len(out') : out'[i].type # "onDisconnect")
      ]_vars

\* C25: a client that has not been manually disconnected, has entered the
\* reconnection cycle and is not open has a reconnect pending: a retry timer is
\* armed or a connection attempt is in flight
C25_NeverStalls ==
    (/\ ~manualDisconnect
     /\ reconnectAttempts > 0
     /\ ~isConnected
     /\ errPending = 0)
    => (\/ timers # <<>>
        \/ \E s \in 1..Len(socks) : socks[s].readyState = "CONNECTING")

\* C26: every user in the typing list has exactly one armed expiry timer, the
\* one the timer map holds, also after the effect of the hook has run again
C26_TrackedHasTimer ==
    \A u \in Users :
        InSeq(u, typingUsers) =>
            (/\ timeoutsRef[u] # 0
             /\ Cardinality({t \in armedTimers : t.user = u}) = 1)

\* the number of calls of handler h in the dispatch log d
CallsOf(d, h) == Len(SelectSeq(d, LAMBDA c : c[1] = h))
\* 1 when handler h is registered under type t, else 0
Registered(mh, t, h) == IF InSeq(h, mh[t]) THEN 1 ELSE 0

C28_RealtimeKept ==
    [][\A m \in 1..(MaxMsg + 1) : InSeq(m, wsMessages) /\ InSeq(m, messages)
                                       => InSeq(m, messages')]_vars

\* C29: the displayed list never holds a message id twice
C29_NoDuplicateIds ==
    \A i, j \in 1..Len(messages) : messages[i] = messages[j] => i = j

====
